---------------------------- MODULE Spec2Model ----------------------------
(***************************************************************************)
(* Library scanner of hummingbird.                                         *)
(*                                                                         *)
(*   src/src/library/scan.rs   the threaded scanner (ScanThread)           *)
(*   src/src/library/scan2.rs  the asynchronous scanner (scan2)            *)
(*                                                                         *)
(* The SQL text of queries/scan/*.sql is not part of the sources at hand;  *)
(* the store operators below (create_artist ... delete_track) follow the   *)
(* store contract of the specification and the way the Rust callers use    *)
(* each query's result.                                                    *)
(***************************************************************************)
EXTENDS Integers, Sequences, FiniteSets, TLC

(***************************************************************************)
(* Bounds of the model.                                                    *)
(***************************************************************************)
\* commands that may wait in the command channel
MaxQueue == 1
\* file-system changes (create, modify, delete) made by the outside world
MaxFsOps == 1
\* provider/store failures injected over a run
MaxFaults == 1

(***************************************************************************)
(* Program constants.                                                      *)
(***************************************************************************)
\* scan.rs:348  discovered_total % 20
DiscoverBatch == 20
\* scan.rs:635  scanned % 5
ScanBatch == 5
\* scan.rs:441  the side above which an image is downscaled, and the side of
\* the downscaled image (scan.rs:446-447)
MaxImageSide == 1024
\* scan.rs:431  thumbnail(&decoded_rgba, 70, 70)
ThumbSide == 70

None == "None"

(***************************************************************************)
(* The library on disk: one configured root with two album folders.  R/b   *)
(* may hold a symbolic link to R/a; F5 and F6 are the files of R/a as they *)
(* are named through it.  A library may also hold the large folder R/c.    *)
(***************************************************************************)
F1 == "R/a/1.flac"
F2 == "R/a/2.flac"
F3 == "R/b/3.flac"
F4 == "R/b/notes.txt"
F5 == "R/b/l/1.flac"
F6 == "R/b/l/2.flac"

\* the symbolic link R/b/l -> R/a
Link == "R/b/l"

Files == {F1, F2, F3, F4, F5, F6}
Dirs == {"R", "R/a", "R/b", Link}

\* what exists only when the link does
Linked == {Link, F5, F6}

\* a large album folder: enough files for the progress events, which are
\* sent once per DiscoverBatch candidates and once per ScanBatch files
BigCount == 40
BigDir == "R/c"
BigFile(i) == "R/c/" \o ToString(i) \o ".flac"
BigFiles == {BigFile(i) : i \in 1..BigCount}

\* Path::canonicalize
canonicalize(p) ==
  CASE p = Link -> "R/a"
    [] p = F5 -> F1
    [] p = F6 -> F2
    [] OTHER -> p

\* scan_settings.paths
ScanPaths == <<"R">>

\* SymphoniaProvider::SUPPORTED_EXTENSIONS, as far as the library uses them
SUPPORTED_EXTENSIONS == {"flac", "mp3"}

\* a file without image: read_image and scan_path_for_album_art yield None
NoImage == [bytes |-> None, w |-> 0, h |-> 0, decodes |-> FALSE]

\* path.parent(), path.extension() and what the provider reads: the tags and
\* the image (embedded, or found in the folder by scan_path_for_album_art)
FileInfo ==
  [f \in Files \cup BigFiles |->
     CASE f = F1 -> [parent |-> "R/a", ext |-> "flac",
                     artist |-> "A", album_artist |-> None, album |-> "X",
                     mbid_album |-> None, disc_current |-> None,
                     image |-> NoImage]
       [] f = F2 -> [parent |-> "R/a", ext |-> "flac",
                     artist |-> "B", album_artist |-> None, album |-> "X",
                     mbid_album |-> None, disc_current |-> None,
                     image |-> NoImage]
       [] f = F5 -> [parent |-> Link, ext |-> "flac",
                     artist |-> "A", album_artist |-> None, album |-> "X",
                     mbid_album |-> None, disc_current |-> None,
                     image |-> NoImage]
       [] f = F6 -> [parent |-> Link, ext |-> "flac",
                     artist |-> "B", album_artist |-> None, album |-> "X",
                     mbid_album |-> None, disc_current |-> None,
                     image |-> NoImage]
       [] f = F3 -> [parent |-> "R/b", ext |-> "flac",
                     artist |-> "C", album_artist |-> "A", album |-> "X",
                     mbid_album |-> None, disc_current |-> None,
                     image |-> NoImage]
       [] f \in BigFiles ->
                    [parent |-> BigDir, ext |-> "flac",
                     artist |-> "A", album_artist |-> None, album |-> "X",
                     mbid_album |-> None, disc_current |-> None,
                     image |-> NoImage]
       [] OTHER  -> [parent |-> "R/b", ext |-> "txt",
                     artist |-> None, album_artist |-> None, album |-> None,
                     mbid_album |-> None, disc_current |-> None,
                     image |-> NoImage]]

\* sub-directories of a directory, in the order read_dir yields them
SubDirs(d) ==
  CASE d = "R" -> <<"R/a", "R/b", BigDir>>
    [] d = "R/b" -> <<Link>>
    [] OTHER -> <<>>

\* candidate file names of a directory, in the order read_dir yields them
FileSlots(d) ==
  CASE d = "R/a" -> <<F1, F2>>
    [] d = "R/b" -> <<F3, F4>>
    [] d = Link -> <<F5, F6>>
    [] d = BigDir -> [i \in 1..BigCount |-> BigFile(i)]
    [] OTHER -> <<>>

Range(s) == {s[i] : i \in 1..Len(s)}
Contains(s, x) == \E i \in 1..Len(s) : s[i] = x
Front(s) == SubSeq(s, 1, Len(s) - 1)
Last(s) == s[Len(s)]

VARIABLES
  variant,     \* which scanner the application runs: "threaded" or "async"
  fs,          \* file system: fs[p] = 0 when p does not exist, else its mtime
  fs_ops,      \* number of file-system changes made so far
  command_rx,  \* the command channel (ScanInterface.command_tx -> command_rx)
  pc,          \* position of the scanner thread in the loop of run()
  self,        \* the ScanThread struct
  pool,        \* the relational store
  scan_record_file, \* content of scan_record.json
  obs,         \* observations of the run: events sent, files opened, ...
  faults,      \* failures injected so far
  scan2,       \* scan2.rs: the ScanState struct of the running pass
  tasks,       \* scan2.rs: the futures of the running pass
  library      \* ui/library.rs: the Library view and its navigation history

vars == <<variant, fs, fs_ops, command_rx, pc, self, pool, scan_record_file,
          obs, faults, scan2, tasks, library>>

\* the variables of the asynchronous scanner
vars2 == <<scan2, tasks>>

(***************************************************************************)
(* ui/library.rs: the Library view.  Its navigation history is the         *)
(* VecDeque<ViewSwitchMessage> of the switcher model; the view shown is    *)
(* made from the message at its back.                                      *)
(***************************************************************************)
\* library.rs:82  v.len() > 99
HistoryCap == 99

\* album ids a Release message can carry
ReleaseIds == {1, 2}

\* how many Release entries the user puts in the history
MaxReleases == 1

\* library.rs:30-35  enum ViewSwitchMessage
Albums == <<"Albums">>
Release(id) == <<"Release", id>>
Back == <<"Back">>
ViewSwitchMessage == {Albums, Back} \cup {Release(id) : id \in ReleaseIds}

\* library.rs:39-49  make_view: the LibraryView of a message
make_view(message) ==
  CASE message = Albums -> <<"Album">>
    [] message[1] = "Release" -> <<"Release", message[2]>>
    [] OTHER -> <<"panic">>

\* the history the switcher model starts with: the album grid
InitialHistory == <<Albums>>

\* library.rs:57-60, 93-96  Library::new, and navigation.rs:29-33
\* NavigationView::new, which reads the back of the history
NewLibrary ==
  [view |-> <<"Album">>,
   switcher_model |-> InitialHistory,
   current_message |-> Last(InitialHistory)]

\* a subscriber that never drops the oldest entry
on_view_switch_unbounded(lib, message) ==
  IF message = Back
  THEN IF Len(lib.switcher_model) > 1
       THEN LET v == Front(lib.switcher_model)
            IN [view |-> make_view(Last(v)), switcher_model |-> v,
                current_message |-> Last(v)]
       ELSE lib
  ELSE LET v == Append(lib.switcher_model, message)
       IN [view |-> make_view(message), switcher_model |-> v,
           current_message |-> Last(v)]

\* library.rs:62-91  the subscriber of the switcher model, with the
\* observer of navigation.rs:35-49 that cx.notify() runs
on_view_switch(lib, message) ==
  IF message = Back
  THEN IF Len(lib.switcher_model) > 1
       THEN LET v == Front(lib.switcher_model)
            IN [view |-> make_view(Last(v)), switcher_model |-> v,
                current_message |-> Last(v)]
       ELSE lib
  ELSE LET v0 == IF Len(lib.switcher_model) > HistoryCap
                 THEN Tail(lib.switcher_model) ELSE lib.switcher_model
           v == Append(v0, message)
       IN [view |-> make_view(message), switcher_model |-> v,
           current_message |-> Last(v)]

(***************************************************************************)
(* scan_record.json.  Its content is NoFile (no file), or the JSON text,   *)
(* kept as its shape ("map": a JSON object path -> timestamp; "seq": a     *)
(* JSON array of [path, timestamp] pairs) and the entries it holds.        *)
(***************************************************************************)
NoFile == [format |-> "none", entries |-> [f \in Files |-> 0]]

\* serde_json::to_string(&AHashMap<PathBuf, u64>)
to_json_map(scan_record) == [format |-> "map", entries |-> scan_record]

\* serde_json::to_string(&Vec<(PathBuf, u64)>)
to_json_seq(scan_record) == [format |-> "seq", entries |-> scan_record]

\* a file whose text does not deserialize: the record of R/a/1.flac, cut off
CorruptFile ==
  [format |-> "corrupt", entries |-> [f \in Files |-> IF f = F1 THEN 1 ELSE 0]]

\* a file that exists and cannot be opened for reading
UnreadableFile ==
  [format |-> "unreadable", entries |-> [f \in Files |-> IF f = F1 THEN 1 ELSE 0]]

\* scan.rs:220-224, scan2.rs:441-445  File::open(&record_path) is an Err
open_fails(file) == file.format = "unreadable"

\* a reader that takes the entries it can find in whatever text it is given
from_reader_lenient(file) == file.entries

\* scan.rs:219-236, scan2.rs:440-458  serde_json::from_reader into a map
\* type: a JSON object is read back; anything else is an error, and the
\* record starts empty
from_reader(file) ==
  IF file.format = "map" THEN file.entries ELSE [f \in Files |-> 0]


(***************************************************************************)
(* The store.  Rows are records; ids are assigned in insertion order.      *)
(***************************************************************************)
EmptyPool == [artist |-> {}, album |-> {}, album_path |-> {}, track |-> {}]

\* fetch_one yields the first row of the result
FirstId(rows) == CHOOSE i \in {r.id : r \in rows} : \A r \in rows : i <= r.id

\* queries/scan/get_artist_id.sql: the id of the artist named `name`, 0 if none
get_artist_id(db, name) ==
  LET rows == {r \in db.artist : r.name = name}
  IN IF rows = {} THEN 0 ELSE FirstId(rows)

\* queries/scan/create_artist.sql: insert unless the name exists; yields the
\* new id, or no row (id 0) on conflict
create_artist(db, name) ==
  IF get_artist_id(db, name) # 0
  THEN [id |-> 0, db |-> db]
  ELSE LET id == Cardinality(db.artist) + 1
       IN [id |-> id,
           db |-> [db EXCEPT !.artist = @ \cup {[id |-> id, name |-> name]}]]

\* queries/scan/get_album_id.sql as scan.rs binds it: by title and mbid
get_album_id(db, title, mbid) ==
  LET rows == {r \in db.album : r.title = title /\ r.mbid = mbid}
  IN IF rows = {} THEN 0 ELSE FirstId(rows)

\* queries/scan/get_album_id.sql as scan2.rs binds it: by title alone
get_album_id_by_title(db, title) ==
  LET rows == {r \in db.album : r.title = title}
  IN IF rows = {} THEN 0 ELSE FirstId(rows)

\* queries/scan/create_album.sql: insert a row, yield its id
create_album(db, title, artist_id, image, thumb, mbid) ==
  LET id == Cardinality(db.album) + 1
  IN [id |-> id,
      db |-> [db EXCEPT !.album = @ \cup
                {[id |-> id, title |-> title, artist_id |-> artist_id,
                  image |-> image, thumb |-> thumb, mbid |-> mbid]}]]

\* queries/scan/get_album_path.sql: the folder bound to (album, disc), or None
get_album_path(db, album_id, disc_num) ==
  LET rows == {r \in db.album_path :
                 r.album_id = album_id /\ r.disc_num = disc_num}
  IN IF rows = {} THEN None ELSE (CHOOSE r \in rows : TRUE).path

\* queries/scan/create_album_path.sql
create_album_path(db, album_id, path, disc_num) ==
  [db EXCEPT !.album_path = @ \cup
     {[album_id |-> album_id, path |-> path, disc_num |-> disc_num]}]

\* queries/scan/create_track.sql: insert unless a row for the path exists
\* (the conflict yields no row: success for scan.rs:552-556, an error of
\* fetch_one for scan2.rs:354-364)
create_track(db, location, album_id, folder, disc) ==
  IF \E r \in db.track : r.location = location
  THEN db
  ELSE [db EXCEPT !.track = @ \cup
          {[location |-> location, album_id |-> album_id,
            folder |-> folder, disc |-> disc]}]

\* queries/scan/delete_track.sql: delete the rows of the path
delete_track_sql(db, location) ==
  [db EXCEPT !.track = {r \in @ : r.location # location}]

\* the rows of the Track table for a path
TracksAt(db, p) == {t \in db.track : t.location = p}

(***************************************************************************)
(* scan.rs: the threaded scanner.  The operators take and yield a record   *)
(* w = [self, pool, file, obs]: the ScanThread struct, the store, the      *)
(* scan-record file and the observations.                                  *)
(***************************************************************************)
\* Observation of two consecutive complete passes over an unchanged tree:
\* stage 1: a pass runs and the tree is unchanged since it began; 2: that
\* pass completed (pool, rec: the rows and the scan record at its end);
\* 3: the next pass runs; 4: the next pass completed; 0: otherwise.
NoPasses == [stage |-> 0, pool |-> EmptyPool, rec |-> [f \in Files |-> 0]]

PassAccepted(w) ==
  LET i == w.obs.idem
  IN [w EXCEPT !.obs.idem =
        IF i.stage = 2 THEN [i EXCEPT !.stage = 3]
        ELSE IF i.stage = 4
             THEN [stage |-> 3, pool |-> w.pool, rec |-> w.self.scan_record]
        ELSE [NoPasses EXCEPT !.stage = 1]]

PassCompleted(w) ==
  LET i == w.obs.idem
  IN [w EXCEPT !.obs.idem =
        IF i.stage = 1
        THEN [stage |-> 2, pool |-> w.pool, rec |-> w.self.scan_record]
        ELSE IF i.stage = 3 THEN [i EXCEPT !.stage = 4]
        ELSE NoPasses]

PassStopped(w) ==
  IF w.self.scan_state = "Idle" THEN w ELSE [w EXCEPT !.obs.idem = NoPasses]

Send(w, ev) == [w EXCEPT !.obs.events = Append(@, ev)]

\* scan.rs:131  file_is_scannable_with_provider
file_is_scannable_with_provider(path, exts) == FileInfo[path].ext \in exts

\* scan.rs:123  build_provider_table: one provider
provider_table == <<SUPPORTED_EXTENSIONS>>

\* a file_is_scannable that does not consult the scan record
file_is_scannable_always(scan_record, path) ==
  IF fs[path] = 0 \/ ~file_is_scannable_with_provider(path, SUPPORTED_EXTENSIONS)
  THEN <<FALSE, scan_record>>
  ELSE <<TRUE, [scan_record EXCEPT ![path] = fs[path]]>>

\* scan.rs:293  ScanThread::file_is_scannable: yields <<answer, new scan_record>>
file_is_scannable(scan_record, path) ==
  IF fs[path] = 0
  THEN <<FALSE, scan_record>>
  ELSE LET timestamp == fs[path]
           hit == {i \in 1..Len(provider_table) :
                     file_is_scannable_with_provider(path, provider_table[i])}
       IN IF hit = {} THEN <<FALSE, scan_record>>
          ELSE IF scan_record[path] = timestamp
               THEN <<FALSE, scan_record>>
               ELSE <<TRUE, [scan_record EXCEPT ![path] = timestamp]>>

\* a discover that reports every candidate
discover_file_reports_each(w, path) ==
  LET r == file_is_scannable(w.self.scan_record, path)
  IN IF r[1]
     THEN LET total == w.self.discovered_total + 1
          IN Send([w EXCEPT !.self.scan_record = r[2],
                            !.self.to_process = Append(@, path),
                            !.self.discovered_total = total,
                            !.obs.dropped = @ \ {path}],
                  <<"DiscoverProgress", total>>)
     ELSE w

\* scan.rs:337-353  the body of discover's loop for one entry that is a file
discover_file(w, path) ==
  LET r == file_is_scannable(w.self.scan_record, path)
  IN IF r[1]
     THEN LET total == w.self.discovered_total + 1
              w1 == [w EXCEPT !.self.scan_record = r[2],
                              !.self.to_process = Append(@, path),
                              !.self.discovered_total = total,
                              !.obs.dropped = @ \ {path}]
          IN IF total % DiscoverBatch = 0
             THEN Send(w1, <<"DiscoverProgress", total>>)
             ELSE w1
     ELSE w

\* scan.rs:337  for paths in dir: entry after entry, each one taken or
\* skipped before the next is looked at
RECURSIVE discover_files(_, _)
discover_files(w, paths) ==
  IF paths = <<>> THEN w
  ELSE LET w1 == discover_file(w, Head(paths))
       IN IF w1 = w THEN discover_files(w, Tail(paths))
          ELSE discover_files(w1, Tail(paths))

\* a path of this library that exists
Exists(p) == p \in DOMAIN fs /\ fs[p] # 0

\* fs::read_dir of a directory: its files that exist
read_dir_files(d) == SelectSeq(FileSlots(d), Exists)

\* fs::read_dir of a directory: its sub-directories that exist
read_dir_dirs(d) == SelectSeq(SubDirs(d), Exists)

\* scan.rs:340  paths.unwrap().path().canonicalize().unwrap() of each entry
Canonical(paths) == [i \in 1..Len(paths) |-> canonicalize(paths[i])]

\* scan.rs:335  fs::read_dir(&path).unwrap() of a directory that is gone:
\* this call of discover panics
discover_panics(w) ==
  /\ w.self.discovered # <<>>
  /\ ~Contains(w.self.visited, Last(w.self.discovered))
  /\ fs[Last(w.self.discovered)] = 0

\* scan.rs:323  ScanThread::discover (up to the panic, when it panics)
discover(w) ==
  IF w.self.discovered = <<>>
  THEN [w EXCEPT !.self.scan_state = "Scanning"]
  ELSE LET path == Last(w.self.discovered)
           w1 == [w EXCEPT !.self.discovered = Front(@)]
       IN IF Contains(w1.self.visited, path) \/ discover_panics(w)
          THEN w1
          ELSE LET w2 == [w1 EXCEPT !.self.discovered =
                                     @ \o Canonical(read_dir_dirs(path))]
                   w3 == discover_files(w2, Canonical(read_dir_files(path)))
               IN [w3 EXCEPT !.self.visited = Append(@, path),
                             !.obs.traversed = @ \cup {path}]

(***************************************************************************)
(* The upsert of one file.  `o` is what the environment does to this file: *)
(* "ok", or the step that fails ("meta_fail": the provider cannot read the *)
(* file; "artist_err", "album_err", "path_err", "track_err": the store (or *)
(* the image decoder, for the album) returns an error at that query).      *)
(***************************************************************************)
Outcomes == {"ok", "meta_fail", "artist_err", "album_err", "path_err", "track_err"}

\* scan.rs:360  metadata.album_artist.clone().or(metadata.artist.clone())
artist_of(metadata) ==
  IF metadata.album_artist # None THEN metadata.album_artist ELSE metadata.artist

\* scan.rs:359  ScanThread::insert_artist: [ok, id (0: None), db]
insert_artist(db, metadata, o) ==
  LET artist == artist_of(metadata)
  IN IF artist = None THEN [ok |-> TRUE, id |-> 0, db |-> db]
     ELSE IF o = "artist_err" THEN [ok |-> FALSE, id |-> 0, db |-> db]
     ELSE LET result == create_artist(db, artist)
          IN IF result.id # 0
             THEN [ok |-> TRUE, id |-> result.id, db |-> result.db]
             ELSE [ok |-> TRUE, id |-> get_artist_id(db, artist), db |-> db]

\* scan.rs:465, scan2.rs:310  (None, None): an album row without art
NoArt ==
  [format |-> "none", of |-> None, w |-> 0, h |-> 0, from_w |-> 0, from_h |-> 0]

NoThumb == [format |-> "none", of |-> None, side |-> 0]

\* scan.rs:431-438, scan2.rs:263-268  thumbnail(): a bitmap of the decoded
\* image that fits in ThumbSide by ThumbSide
thumbnail(image) ==
  [format |-> "bmp", of |-> image.bytes, side |-> ThumbSide]

\* the bytes of the file's image, stored as they are
original_bytes(image) ==
  [format |-> "original", of |-> image.bytes, w |-> image.w, h |-> image.h,
   from_w |-> image.w, from_h |-> image.h]

\* scan.rs:444-460  resize to MaxImageSide by MaxImageSide, encoded as JPEG
resized_jpeg(image) ==
  [format |-> "jpeg", of |-> image.bytes, w |-> MaxImageSide,
   h |-> MaxImageSide, from_w |-> image.w, from_h |-> image.h]

\* scan.rs:440-462  the full-size image insert_album stores
resized(image) ==
  IF image.w <= MaxImageSide \/ image.h <= MaxImageSide
  THEN original_bytes(image)
  ELSE resized_jpeg(image)

\* an insert_album that gives an album it finds the art of the file at hand
insert_album_refreshes_art(db, metadata, artist_id, o) ==
  IF metadata.album = None THEN [ok |-> TRUE, id |-> 0, db |-> db]
  ELSE LET mbid == IF metadata.mbid_album = None THEN "none"
                   ELSE metadata.mbid_album
           found == get_album_id(db, metadata.album, mbid)
           image == metadata.image
       IN IF image # NoImage /\ ~image.decodes
          THEN [ok |-> FALSE, id |-> 0, db |-> db]
          ELSE IF found # 0
          THEN [ok |-> TRUE, id |-> found,
                db |-> IF image = NoImage THEN db
                       ELSE [db EXCEPT !.album =
                               {IF r.id = found
                                THEN [r EXCEPT !.image = resized(image),
                                               !.thumb = thumbnail(image)]
                                ELSE r : r \in @}]]
          ELSE LET result ==
                     IF image = NoImage
                     THEN create_album(db, metadata.album, artist_id,
                                       NoArt, NoThumb, mbid)
                     ELSE create_album(db, metadata.album, artist_id,
                                       resized(image), thumbnail(image), mbid)
               IN [ok |-> TRUE, id |-> result.id, db |-> result.db]

\* scan.rs:391  ScanThread::insert_album: [ok, id (0: None), db]
insert_album(db, metadata, artist_id, o) ==
  IF metadata.album = None THEN [ok |-> TRUE, id |-> 0, db |-> db]
  ELSE LET mbid == IF metadata.mbid_album = None THEN "none"
                   ELSE metadata.mbid_album
           found == get_album_id(db, metadata.album, mbid)
           image == metadata.image
       IN IF o = "album_err" THEN [ok |-> FALSE, id |-> 0, db |-> db]
          ELSE IF found # 0 THEN [ok |-> TRUE, id |-> found, db |-> db]
          ELSE IF image # NoImage /\ ~image.decodes
               THEN [ok |-> FALSE, id |-> 0, db |-> db]
          ELSE LET result ==
                     IF image = NoImage
                     THEN create_album(db, metadata.album, artist_id,
                                       NoArt, NoThumb, mbid)
                     ELSE create_album(db, metadata.album, artist_id,
                                       resized(image), thumbnail(image), mbid)
               IN [ok |-> TRUE, id |-> result.id, db |-> result.db]

\* an insert_track that stores the track whether or not an album was found
insert_track_without_album(db, metadata, album_id, path, o) ==
  [ok |-> TRUE,
   db |-> create_track(db, path, album_id, metadata.parent,
                       metadata.disc_current)]

\* scan.rs:490  ScanThread::insert_track: [ok, db]
insert_track(db, metadata, album_id, path, o) ==
  IF album_id = 0 THEN [ok |-> TRUE, db |-> db]
  ELSE LET disc_num == IF metadata.disc_current = None THEN -1
                       ELSE metadata.disc_current
           parent == metadata.parent
           find_path == get_album_path(db, album_id, disc_num)
       IN IF o = "path_err" THEN [ok |-> FALSE, db |-> db]
          ELSE IF find_path # None /\ find_path # parent
               THEN [ok |-> TRUE, db |-> db]
          ELSE LET db1 == IF find_path = None
                          THEN create_album_path(db, album_id, parent, disc_num)
                          ELSE db
               IN IF o = "track_err" THEN [ok |-> FALSE, db |-> db1]
                  ELSE [ok |-> TRUE,
                        db |-> create_track(db1, path, album_id, parent,
                                            metadata.disc_current)]

\* an update_metadata that is abandoned once the album is in the store
update_metadata_abandoned(db, metadata, path, o) ==
  LET a == insert_artist(db, metadata, o)
  IN IF ~a.ok THEN [ok |-> FALSE, db |-> a.db, artist_id |-> 0]
     ELSE LET b == insert_album(a.db, metadata, a.id, o)
          IN [ok |-> b.ok, db |-> b.db, artist_id |-> a.id]

\* scan.rs:560  ScanThread::update_metadata: [ok, db], and the artist id that
\* insert_artist returned (0: none)
update_metadata(db, metadata, path, o) ==
  LET a == insert_artist(db, metadata, o)
  IN IF ~a.ok THEN [ok |-> FALSE, db |-> a.db, artist_id |-> 0]
     ELSE LET b == insert_album(a.db, metadata, a.id, o)
          IN IF ~b.ok THEN [ok |-> FALSE, db |-> b.db, artist_id |-> a.id]
             ELSE LET c == insert_track(b.db, metadata, b.id, path, o)
                  IN [ok |-> c.ok, db |-> c.db, artist_id |-> a.id]

\* scan.rs:596  ScanThread::write_scan_record
write_scan_record(w) ==
  [w EXCEPT !.file = to_json_map(w.self.scan_record),
            !.obs.writes = Append(@, Len(w.obs.events))]

\* a scan that gives the pass up at the first file that fails
scan_aborts_on_failure(w, o) ==
  IF w.self.to_process = <<>>
  THEN Send([w EXCEPT !.self.scan_state = "Idle",
                      !.file = to_json_map(w.self.scan_record)],
            <<"ScanCompleteIdle">>)
  ELSE LET path == Last(w.self.to_process)
       IN IF o # "ok" \/ fs[path] = 0
          THEN Send([w EXCEPT !.self.to_process = <<>>,
                              !.self.scan_state = "Idle",
                              !.obs.opened = @ \cup {path},
                              !.obs.failed = @ \cup {path}],
                    <<"ScanCompleteIdle">>)
          ELSE LET result == update_metadata(w.pool, FileInfo[path], path, o)
               IN [w EXCEPT !.self.to_process = Front(@),
                            !.obs.opened = @ \cup {path},
                            !.pool = result.db,
                            !.self.scanned = @ + 1,
                            !.obs.resolved[path] = result.artist_id]

\* a scan() that also saves the record after each file it has handled
scan_writes_every_file(w, o) ==
  IF w.self.to_process = <<>>
  THEN LET w1 == write_scan_record(w)
       IN Send(PassCompleted([w1 EXCEPT !.self.scan_state = "Idle"]),
               <<"ScanCompleteIdle">>)
  ELSE LET path == Last(w.self.to_process)
           w1 == write_scan_record([w EXCEPT !.self.to_process = Front(@),
                                             !.obs.opened = @ \cup {path}])
       IN IF o = "meta_fail" \/ fs[path] = 0
          THEN [w1 EXCEPT !.obs.failed = @ \cup {path}]
          ELSE LET result == update_metadata(w1.pool, FileInfo[path], path, o)
                   scanned == w1.self.scanned + 1
                   w2 == [w1 EXCEPT !.pool = result.db,
                                    !.self.scanned = scanned,
                                    !.obs.resolved[path] = result.artist_id,
                                    !.obs.failed = IF result.ok THEN @
                                                   ELSE @ \cup {path}]
               IN IF scanned % ScanBatch = 0
                  THEN Send(w2, <<"ScanProgress", scanned, w2.self.discovered_total>>)
                  ELSE w2

\* scan.rs:611  ScanThread::scan
scan(w, o) ==
  IF w.self.to_process = <<>>
  THEN LET w1 == write_scan_record(w)
       IN Send(PassCompleted([w1 EXCEPT !.self.scan_state = "Idle"]),
               <<"ScanCompleteIdle">>)
  ELSE LET path == Last(w.self.to_process)
           w1 == [w EXCEPT !.self.to_process = Front(@),
                           !.obs.opened = @ \cup {path}]
       IN IF o = "meta_fail" \/ fs[path] = 0
          THEN [w1 EXCEPT !.obs.failed = @ \cup {path}]
          ELSE LET result == update_metadata(w1.pool, FileInfo[path], path, o)
                   scanned == w1.self.scanned + 1
                   w2 == [w1 EXCEPT !.pool = result.db,
                                    !.self.scanned = scanned,
                                    !.obs.resolved[path] = result.artist_id,
                                    !.obs.failed = IF result.ok THEN @
                                                   ELSE @ \cup {path}]
               IN IF scanned % ScanBatch = 0
                  THEN Send(w2, <<"ScanProgress", scanned, w2.self.discovered_total>>)
                  ELSE w2

\* a delete_track that forgets the path whether or not the row was deleted
delete_track_forgets(w, path, fails) ==
  IF fails
  THEN [w EXCEPT !.obs.del_failed = @ \cup {path},
                 !.self.scan_record[path] = 0]
  ELSE [w EXCEPT !.pool = delete_track_sql(@, path),
                 !.self.scan_record[path] = 0]

\* scan.rs:648  ScanThread::delete_track; `fails`: the store returns an error
delete_track(w, path, fails) ==
  IF fails
  THEN [w EXCEPT !.obs.del_failed = @ \cup {path}]
  ELSE [w EXCEPT !.pool = delete_track_sql(@, path),
                 !.self.scan_record[path] = 0]

RECURSIVE delete_tracks(_, _, _)
delete_tracks(w, paths, failing) ==
  IF paths = {} THEN w
  ELSE LET v == CHOOSE v \in paths : TRUE
       IN delete_tracks(delete_track(w, v, v \in failing), paths \ {v}, failing)

\* a cleanup that forgets the filter !v.0.exists()
stale_paths_unfiltered(scan_record) ==
  {v \in DOMAIN scan_record : scan_record[v] # 0}

\* the keys of the scan record whose file does not exist
stale_paths(scan_record) ==
  {v \in DOMAIN scan_record : scan_record[v] # 0 /\ fs[v] = 0}

\* a cleanup that handles one stale path per call, as discover handles one
\* directory per call, and leaves the Cleanup state when none is left
cleanup_one_per_call(w, failing) ==
  LET stale == stale_paths(w.self.scan_record)
  IN IF stale = {}
     THEN [w EXCEPT !.self.scan_state = "Discovering"]
     ELSE LET v == CHOOSE v \in stale : TRUE
          IN delete_track([w EXCEPT !.obs.del_failed = {}], v, v \in failing)

\* scan.rs:664  ScanThread::cleanup
cleanup(w, failing) ==
  LET w1 == delete_tracks([w EXCEPT !.obs.del_failed = {}],
                          stale_paths(w.self.scan_record), failing)
  IN [w1 EXCEPT !.self.scan_state = "Discovering"]

\* a read_commands whose Scan begins a pass in whatever state it is read
read_command_scan_restarts(w, command) ==
  IF command = "Scan"
  THEN Send([w EXCEPT !.self.discovered = ScanPaths,
                      !.self.scan_state = "Cleanup",
                      !.self.scanned = 0,
                      !.self.discovered_total = 0],
            <<"Cleaning">>)
  ELSE [w EXCEPT !.self.scan_state = "Idle",
                 !.self.visited = <<>>,
                 !.self.discovered = <<>>,
                 !.self.to_process = <<>>]

\* a read_commands whose Stop only returns to Idle and keeps the queues
read_command_stop_keeps_queues(w, command) ==
  IF command = "Scan"
  THEN IF w.self.scan_state = "Idle"
       THEN Send([w EXCEPT !.self.discovered = ScanPaths,
                           !.self.scan_state = "Cleanup",
                           !.self.scanned = 0,
                           !.self.discovered_total = 0],
                 <<"Cleaning">>)
       ELSE w
  ELSE [w EXCEPT !.self.scan_state = "Idle"]

\* scan.rs:263-281  one command of read_commands' loop
read_command(w, command) ==
  IF command = "Scan"
  THEN IF w.self.scan_state = "Idle"
       THEN Send([PassAccepted(w) EXCEPT
                           !.self.discovered = ScanPaths,
                           !.self.scan_state = "Cleanup",
                           !.self.scanned = 0,
                           !.self.discovered_total = 0,
                           !.obs.events = <<>>,
                           !.obs.first = (w.obs.events = <<>>),
                           !.obs.writes = <<>>,
                           !.obs.traversed = {},
                           !.obs.opened = {},
                           !.obs.failed = {}],
                 <<"Cleaning">>)
       ELSE w
  ELSE [PassStopped(w) EXCEPT
                 !.self.scan_state = "Idle",
                 !.self.visited = <<>>,
                 !.self.discovered = <<>>,
                 !.self.to_process = <<>>,
                 !.obs.dropped = @ \cup Range(w.self.to_process)]

RECURSIVE drain(_, _)
drain(w, commands) ==
  IF commands = <<>> THEN w
  ELSE drain(read_command(w, Head(commands)), Tail(commands))

\* read_commands panics in its call of discover
read_commands_panics(w, commands) ==
  /\ drain(w, commands).self.scan_state = "Discovering"
  /\ discover_panics(drain(w, commands))

\* scan.rs:261  ScanThread::read_commands
read_commands(w, commands, o) ==
  LET w1 == drain(w, commands)
  IN IF w1.self.scan_state = "Discovering" THEN discover(w1)
     ELSE IF w1.self.scan_state = "Scanning" THEN scan(w1, o)
     ELSE w1

\* scan2.rs:461-467  the ScanState of a pass, and no pass running
NewScanState(record) ==
  [phase |-> "running", scan_record |-> record,
   artist_mutex_table |-> [n \in {} |-> 0],
   album_mutex_table |-> [k \in {} |-> 0]]

NoScanState == [NewScanState([f \in Files |-> 0]) EXCEPT !.phase = "idle"]

\* scan2.rs: the futures of a pass, one per directory and one per file, and
\* a future that was not created
TaskIds == Dirs \cup Files

NoTask == [pc |-> "none", opened |-> FALSE, artist_id |-> 0, album_id |-> 0,
           created |-> FALSE, err |-> "none"]

NoTasks == [t \in TaskIds |-> NoTask]

(***************************************************************************)
(* The state machine of the threaded scanner and its environment.          *)
(***************************************************************************)
World == [self |-> self, pool |-> pool, file |-> scan_record_file, obs |-> obs]

Commit(w) ==
  /\ self' = w.self
  /\ pool' = w.pool
  /\ scan_record_file' = w.file
  /\ obs' = w.obs

\* the next call of scan() pops a candidate: the environment may fail it
Faultable(w) == w.self.scan_state = "Scanning" /\ w.self.to_process # <<>>

Inject(w, o) ==
  /\ o # "ok" => Faultable(w) /\ faults < MaxFaults
  /\ faults' = IF o = "ok" THEN faults ELSE faults + 1

\* nothing observed yet
NoObs ==
  [events |-> <<>>, traversed |-> {}, opened |-> {}, failed |-> {},
   dropped |-> {}, del_failed |-> {}, idem |-> NoPasses,
   resolved |-> [f \in Files |-> 0], first |-> FALSE, writes |-> <<>>,
   last |-> [path |-> None, metadata |-> FileInfo[F4], ok |-> TRUE]]

\* scan.rs:187-201  the ScanThread that start() builds
NewScanThread ==
  [scan_state |-> "Idle", visited |-> <<>>, discovered |-> <<>>,
   to_process |-> <<>>, scan_record |-> [f \in Files |-> 0],
   scanned |-> 0, discovered_total |-> 0]

\* what both scanners start from: the library, an empty store
InitCommon ==
  /\ fs = [p \in Files \cup Dirs |-> IF p \in {F3} \cup Linked THEN 0 ELSE 1]
  /\ fs_ops = 0
  /\ library = NewLibrary
  /\ command_rx = <<>>
  /\ pc = "read_commands"
  /\ self = NewScanThread
  /\ pool = EmptyPool
  /\ scan2 = NoScanState
  /\ tasks = NoTasks
  /\ obs = NoObs
  /\ faults = 0

\* scan.rs:181-238  ScanThread::start and run() up to its loop, with no
\* scan_record.json on disk
InitThreaded ==
  /\ variant = "threaded"
  /\ scan_record_file = NoFile
  /\ InitCommon

\* the asynchronous scanner before the first start_scan; scan_record.json is
\* absent or was left by the threaded scanner
InitAsync ==
  /\ variant = "async"
  /\ scan_record_file \in
       {NoFile, to_json_map([f \in Files |-> IF f = F1 THEN 1 ELSE 0])}
  /\ InitCommon

Init == InitThreaded \/ InitAsync

\* either scanner over the library with the link R/b/l -> R/a in place
InitLinks ==
  /\ variant \in {"threaded", "async"}
  /\ scan_record_file = NoFile
  /\ fs = [p \in Files \cup Dirs |-> IF p \in {F3, F4} THEN 0 ELSE 1]
  /\ fs_ops = 0
  /\ library = NewLibrary
  /\ command_rx = <<>>
  /\ pc = "read_commands"
  /\ self = NewScanThread
  /\ pool = EmptyPool
  /\ scan2 = NoScanState
  /\ tasks = NoTasks
  /\ obs = NoObs
  /\ faults = 0

\* the threaded scanner over a library that holds the folders R/a and R/c,
\* with no scan_record.json on disk
InitProgress ==
  /\ variant = "threaded"
  /\ scan_record_file = NoFile
  /\ fs = [p \in Files \cup Dirs \cup BigFiles \cup {BigDir} |->
             IF p \in {"R", "R/a", F1, F2, BigDir} \cup BigFiles THEN 1 ELSE 0]
  /\ fs_ops = 0
  /\ library = NewLibrary
  /\ command_rx = <<>>
  /\ pc = "read_commands"
  /\ self = [NewScanThread EXCEPT
               !.scan_record = [f \in Files \cup BigFiles |-> 0]]
  /\ pool = EmptyPool
  /\ scan2 = NoScanState
  /\ tasks = NoTasks
  /\ obs = [NoObs EXCEPT !.resolved = [f \in Files \cup BigFiles |-> 0]]
  /\ faults = 0

\* scan.rs:211-238  run() up to its loop, with a scan_record.json on disk
\* that cannot be opened (run returns) or does not deserialize; and the
\* asynchronous scanner before its first start_scan with the same file
InitStart ==
  /\ variant \in {"threaded", "async"}
  /\ scan_record_file \in {CorruptFile, UnreadableFile}
  /\ fs = [p \in Files \cup Dirs |-> IF p \in {F3} \cup Linked THEN 0 ELSE 1]
  /\ fs_ops = 0
  /\ library = NewLibrary
  /\ command_rx = <<>>
  /\ pc = IF variant = "threaded" /\ open_fails(scan_record_file)
          THEN "returned" ELSE "read_commands"
  /\ self = IF variant = "threaded" /\ ~open_fails(scan_record_file)
            THEN [NewScanThread EXCEPT !.scan_record = from_reader(scan_record_file)]
            ELSE NewScanThread
  /\ pool = EmptyPool
  /\ scan2 = NoScanState
  /\ tasks = NoTasks
  /\ obs = NoObs
  /\ faults = 0

\* the scanner thread is gone: it panicked, or run() returned
Dead == {"panicked", "returned", "crashed"}

\* scan.rs:58  ScanInterface::scan (with the thread gone send() is an Err and
\* the caller panics in expect: no command is delivered)
ScanInterface_scan ==
  /\ variant = "threaded"
  /\ pc \notin Dead
  /\ Len(command_rx) < MaxQueue
  /\ command_rx' = Append(command_rx, "Scan")
  /\ UNCHANGED <<variant, library, fs, fs_ops, pc, self, pool, scan_record_file, obs,
                 faults, vars2>>

\* scan.rs:64  ScanInterface::stop
ScanInterface_stop ==
  /\ variant = "threaded"
  /\ pc \notin Dead
  /\ Len(command_rx) < MaxQueue
  /\ command_rx' = Append(command_rx, "Stop")
  /\ UNCHANGED <<variant, library, fs, fs_ops, pc, self, pool, scan_record_file, obs,
                 faults, vars2>>

\* scan.rs:241  self.read_commands() in the loop of run()
ReadCommands ==
  /\ variant = "threaded"
  /\ pc = "read_commands"
  /\ \E o \in Outcomes :
       /\ Inject(drain(World, command_rx), o)
       /\ Commit(read_commands(World, command_rx, o))
  /\ command_rx' = <<>>
  /\ pc' = IF read_commands_panics(World, command_rx) THEN "panicked" ELSE "match"
  /\ UNCHANGED <<variant, library, fs, fs_ops, vars2>>

\* scan.rs:245  ScanState::Idle => sleep
RunIdle ==
  /\ variant = "threaded"
  /\ pc = "match" /\ self.scan_state = "Idle"
  /\ pc' = "read_commands"
  /\ UNCHANGED <<variant, library, fs, fs_ops, command_rx, self, pool, scan_record_file,
                 obs, faults, vars2>>

\* scan.rs:248  ScanState::Cleanup => self.cleanup()
RunCleanup ==
  /\ variant = "threaded"
  /\ pc = "match" /\ self.scan_state = "Cleanup"
  /\ \E failing \in SUBSET stale_paths(self.scan_record) :
       /\ failing # {} => faults < MaxFaults
       /\ faults' = IF failing = {} THEN faults ELSE faults + 1
       /\ Commit(cleanup(World, failing))
  /\ pc' = "read_commands"
  /\ UNCHANGED <<variant, library, fs, fs_ops, command_rx, vars2>>

\* scan.rs:251  ScanState::Discovering => self.discover()
RunDiscovering ==
  /\ variant = "threaded"
  /\ pc = "match" /\ self.scan_state = "Discovering"
  /\ Commit(discover(World))
  /\ pc' = IF discover_panics(World) THEN "panicked" ELSE "read_commands"
  /\ UNCHANGED <<variant, library, fs, fs_ops, command_rx, faults, vars2>>

\* scan.rs:254  ScanState::Scanning => self.scan()
RunScanning ==
  /\ variant = "threaded"
  /\ pc = "match" /\ self.scan_state = "Scanning"
  /\ \E o \in Outcomes :
       /\ Inject(World, o)
       /\ Commit(scan(World, o))
  /\ pc' = "read_commands"
  /\ UNCHANGED <<variant, library, fs, fs_ops, command_rx, vars2>>

(***************************************************************************)
(* The outside world changes the library: at any time while the threaded  *)
(* scanner runs, between the passes of the asynchronous one (within a pass *)
(* a vanished file is one of the failures of scan_track).                  *)
(***************************************************************************)
Tracks == {f \in Files : FileInfo[f].ext \in SUPPORTED_EXTENSIONS}

FsChange(new) ==
  /\ scan2.phase = "idle"
  /\ fs_ops < MaxFsOps
  /\ fs_ops' = fs_ops + 1
  /\ fs' = new
  /\ obs' = [obs EXCEPT !.idem = NoPasses]
  /\ UNCHANGED <<variant, library, command_rx, pc, self, pool, scan_record_file, faults,
                 vars2>>

CreateFile ==
  \E f \in Tracks :
    /\ fs[f] = 0 /\ fs[FileInfo[f].parent] # 0
    /\ FsChange([fs EXCEPT ![f] = 1])

ModifyFile == \E f \in Tracks : fs[f] # 0 /\ FsChange([fs EXCEPT ![f] = @ + 1])

RemoveFile == \E f \in Tracks : fs[f] # 0 /\ FsChange([fs EXCEPT ![f] = 0])

\* scan.rs:598  what File::create leaves on disk before write_all has run
TruncatedFile == [format |-> "truncated", entries |-> [f \in Files |-> 0]]

\* scan.rs:598-600  the process ends between File::create, which truncates
\* scan_record.json, and write_all
CrashInPersist ==
  /\ variant = "threaded"
  /\ pc = "match" /\ self.scan_state = "Scanning" /\ self.to_process = <<>>
  /\ scan_record_file' = TruncatedFile
  /\ pc' = "crashed"
  /\ UNCHANGED <<variant, library, fs, fs_ops, command_rx, self, pool, obs, faults, vars2>>

\* a folder under the root is deleted with the files in it
RemoveDir ==
  \E d \in Dirs \ Range(ScanPaths) :
    /\ fs[d] # 0
    /\ FsChange([p \in Files \cup Dirs |->
                   IF p = d \/ (p \in Files /\ FileInfo[p].parent = d)
                   THEN 0 ELSE fs[p]])

(***************************************************************************)
(* scan2.rs: the asynchronous scanner.  A pass is a set of futures: one    *)
(* scan() per directory and one scan_track() per file.  A future advances  *)
(* from one await to the next in one step; futures interleave freely.      *)
(***************************************************************************)
\* the futures start_scan creates: scan() of every configured path
RootTasks ==
  [t \in TaskIds |-> IF t \in Range(ScanPaths)
                     THEN [NoTask EXCEPT !.pc = "pending"] ELSE NoTask]

\* the key of album_mutex_table
AlbumKey(artist_id, title) == <<artist_id, title>>

\* scan2.rs:440-458, 461-467  start_scan: read the record, build ScanState
start_scan ==
  /\ variant = "async"
  /\ scan2.phase = "idle"
  /\ IF open_fails(scan_record_file)
     THEN UNCHANGED <<scan2, tasks>>
     ELSE /\ scan2' = NewScanState(from_reader(scan_record_file))
          /\ tasks' = RootTasks
  /\ UNCHANGED <<variant, library, fs, fs_ops, command_rx, pc, self, pool,
                 scan_record_file, obs, faults>>

\* scan2.rs:75-94  the loop body of scan() for a child that is a file:
\* <<scan_record, tasks>> after it
scan_child(st, path) ==
  LET timestamp == fs[path]
  IN IF st[1][path] = timestamp
     THEN st
     ELSE <<[st[1] EXCEPT ![path] = timestamp],
            [st[2] EXCEPT ![path] = [NoTask EXCEPT !.pc = "pending"]]>>

RECURSIVE scan_children(_, _)
scan_children(st, paths) ==
  IF paths = <<>> THEN st
  ELSE scan_children(scan_child(st, Head(paths)), Tail(paths))

\* scan2.rs:60  scan(): list one directory, create the futures of its children
scan_directory(d) ==
  /\ variant = "async"
  /\ d \in Dirs /\ tasks[d].pc = "pending"
  /\ LET subs == read_dir_dirs(d)
         t1 == [t \in TaskIds |->
                  IF t = d THEN [tasks[t] EXCEPT !.pc = "done"]
                  ELSE IF Contains(subs, t) THEN [NoTask EXCEPT !.pc = "pending"]
                  ELSE tasks[t]]
         st == scan_children(<<scan2.scan_record, t1>>, read_dir_files(d))
     IN /\ scan2' = [scan2 EXCEPT !.scan_record = st[1]]
        /\ tasks' = st[2]
  /\ UNCHANGED <<variant, library, fs, fs_ops, command_rx, pc, self, pool,
                 scan_record_file, obs, faults>>

\* scan2.rs:67-80  scan() of a directory in which an entry cannot be listed
\* or its metadata cannot be read (a dangling link, a file removed since it
\* was listed): `?` returns from scan() at that entry.  The files before it,
\* the first k of the listing, have their record entries; the futures made
\* for them and for sub-directories are dropped with the vectors that hold
\* them and never run.
scan_directory_fails(d) ==
  /\ variant = "async"
  /\ d \in Dirs /\ tasks[d].pc = "pending"
  /\ faults < MaxFaults
  /\ faults' = faults + 1
  /\ \E k \in 0..Len(read_dir_files(d)) :
       LET st == scan_children(<<scan2.scan_record, tasks>>,
                               SubSeq(read_dir_files(d), 1, k))
       IN scan2' = [scan2 EXCEPT !.scan_record = st[1]]
  /\ tasks' = [tasks EXCEPT ![d].pc = "done", ![d].err = "fault"]
  /\ UNCHANGED <<variant, library, fs, fs_ops, command_rx, pc, self, pool,
                 scan_record_file, obs>>

\* a step of a scan_track future: what stays unchanged, and the fault budget
TrackStep(f, fail) ==
  /\ variant = "async"
  /\ f \in Files
  /\ fail => faults < MaxFaults
  /\ faults' = IF fail THEN faults + 1 ELSE faults
  /\ UNCHANGED <<variant, library, fs, fs_ops, command_rx, pc, self, scan_record_file,
                 obs>>

Finish(f, err) == [tasks EXCEPT ![f].pc = "done", ![f].err = err]

\* scan2.rs:381-386  scan_track up to insert_artist: the extension test and
\* read_metadata_for_path
scan_track(f) ==
  /\ tasks[f].pc = "pending"
  /\ \E fail \in BOOLEAN :
       /\ TrackStep(f, fail)
       /\ IF ~file_is_scannable_with_provider(f, SUPPORTED_EXTENSIONS)
          THEN ~fail /\ tasks' = [tasks EXCEPT ![f].pc = "done"]
          ELSE IF fail \/ fs[f] = 0
          THEN tasks' = [tasks EXCEPT ![f].pc = "done", ![f].err = "fault",
                                      ![f].opened = TRUE]
          ELSE IF artist_of(FileInfo[f]) = None
          THEN tasks' = [tasks EXCEPT ![f].pc = "done", ![f].opened = TRUE]
          ELSE tasks' = [tasks EXCEPT ![f].pc = "artist", ![f].opened = TRUE]
  /\ UNCHANGED <<pool, scan2>>

\* a lock that excludes nobody
never_held == FALSE

\* scan2.rs:193  artist_mutex_table.lock(): some future holds the guard
artist_lock_held == \E g \in Files : tasks[g].pc = "artist_create"

\* scan2.rs:236  album_mutex_table.lock(): some future holds the guard
album_lock_held == \E g \in Files : tasks[g].pc = "album_create"

\* after insert_artist returned Some(id): on to insert_album (scan2.rs:398)
to_album(f, id) ==
  IF FileInfo[f].album = None
  THEN [tasks EXCEPT ![f].pc = "done", ![f].artist_id = id]
  ELSE [tasks EXCEPT ![f].pc = "album", ![f].artist_id = id]

\* scan2.rs:193-209, 221  insert_artist: take the lock, look the name up in
\* the table and then with get_artist_id.sql
artist_get(f) ==
  /\ tasks[f].pc = "artist"
  /\ ~artist_lock_held
  /\ \E fail \in BOOLEAN :
       /\ TrackStep(f, fail)
       /\ LET artist == artist_of(FileInfo[f])
              found == get_artist_id(pool, artist)
          IN IF artist \in DOMAIN scan2.artist_mutex_table
             THEN /\ ~fail
                  /\ tasks' = to_album(f, scan2.artist_mutex_table[artist])
                  /\ scan2' = scan2
             ELSE IF fail
             THEN tasks' = Finish(f, "fault") /\ scan2' = scan2
             ELSE IF found # 0
             THEN /\ tasks' = to_album(f, found)
                  /\ scan2' = [scan2 EXCEPT !.artist_mutex_table =
                                 (artist :> found) @@ @]
             ELSE tasks' = [tasks EXCEPT ![f].pc = "artist_create"]
                  /\ scan2' = scan2
  /\ UNCHANGED pool

\* scan2.rs:210-220  insert_artist: create_artist.sql
artist_create(f) ==
  /\ tasks[f].pc = "artist_create"
  /\ \E fail \in BOOLEAN :
       /\ TrackStep(f, fail)
       /\ LET artist == artist_of(FileInfo[f])
              insert == create_artist(pool, artist)
          IN IF fail
             THEN tasks' = Finish(f, "fault") /\ UNCHANGED <<pool, scan2>>
             ELSE IF insert.id = 0
             THEN tasks' = Finish(f, "conflict") /\ UNCHANGED <<pool, scan2>>
             ELSE /\ pool' = insert.db
                  /\ tasks' = to_album(f, insert.id)
                  /\ scan2' = [scan2 EXCEPT !.artist_mutex_table =
                                 (artist :> insert.id) @@ @]

\* after insert_album returned Some(id): on to insert_track (scan2.rs:410)
to_track(f, id, created) ==
  [tasks EXCEPT ![f].pc = "track", ![f].album_id = id, ![f].created = created]

\* scan2.rs:236-253, 333  insert_album: take the lock, look the key up in
\* the table and then with get_album_id.sql
album_get(f) ==
  /\ tasks[f].pc = "album"
  /\ ~album_lock_held
  /\ \E fail \in BOOLEAN :
       /\ TrackStep(f, fail)
       /\ LET key == AlbumKey(tasks[f].artist_id, FileInfo[f].album)
              id == get_album_id_by_title(pool, FileInfo[f].album)
          IN IF key \in DOMAIN scan2.album_mutex_table
             THEN /\ ~fail
                  /\ tasks' = to_track(f, scan2.album_mutex_table[key], FALSE)
                  /\ scan2' = scan2
             ELSE IF fail
             THEN tasks' = Finish(f, "fault") /\ scan2' = scan2
             ELSE IF id # 0
             THEN /\ tasks' = to_track(f, id, FALSE)
                  /\ scan2' = [scan2 EXCEPT !.album_mutex_table = (key :> id) @@ @]
             ELSE tasks' = [tasks EXCEPT ![f].pc = "album_create"]
                  /\ scan2' = scan2
  /\ UNCHANGED pool

\* scan2.rs:255-312  insert_album: <<thumb, full>> of the file's image; an
\* image that does not decode is logged and gives an album without art
scan2_images(image) ==
  IF image = NoImage \/ ~image.decodes THEN <<NoThumb, NoArt>>
  ELSE <<thumbnail(image), original_bytes(image)>>

\* scan2.rs:254-332  insert_album: create_album.sql
album_create(f) ==
  /\ tasks[f].pc = "album_create"
  /\ \E fail \in BOOLEAN :
       /\ TrackStep(f, fail)
       /\ LET key == AlbumKey(tasks[f].artist_id, FileInfo[f].album)
              images == scan2_images(FileInfo[f].image)
              insert == create_album(pool, FileInfo[f].album,
                                     tasks[f].artist_id, images[2], images[1],
                                     None)
          IN IF fail
             THEN tasks' = Finish(f, "fault") /\ UNCHANGED <<pool, scan2>>
             ELSE /\ pool' = insert.db
                  /\ tasks' = to_track(f, insert.id, TRUE)
                  /\ scan2' = [scan2 EXCEPT !.album_mutex_table =
                                 (key :> insert.id) @@ @]

\* scan2.rs:337  insert_track: create_track.sql; no row (the path has a row
\* already) is an error of fetch_one
track_create(f) ==
  /\ tasks[f].pc = "track"
  /\ \E fail \in BOOLEAN :
       /\ TrackStep(f, fail)
       /\ IF fail
          THEN tasks' = Finish(f, "fault") /\ pool' = pool
          ELSE IF TracksAt(pool, f) # {}
          THEN tasks' = Finish(f, "conflict") /\ pool' = pool
          ELSE /\ tasks' = Finish(f, "none")
               /\ pool' = create_track(pool, f, tasks[f].album_id, None,
                                       FileInfo[f].disc_current)
  /\ UNCHANGED scan2

\* scan2.rs:475-480  every future has been joined: save_scan_record; the
\* pass ends and its ScanState and futures are dropped
save_scan_record ==
  /\ variant = "async"
  /\ scan2.phase = "running"
  /\ \A t \in TaskIds : tasks[t].pc \in {"none", "done"}
  /\ scan_record_file' = to_json_seq(scan2.scan_record)
  /\ scan2' = NoScanState
  /\ tasks' = NoTasks
  /\ UNCHANGED <<variant, library, fs, fs_ops, command_rx, pc, self, pool, obs, faults>>

(***************************************************************************)
(* The upsert of one file on its own: the store after update_metadata      *)
(* (scan.rs) or after one scan_track future that runs with no other        *)
(* (scan2.rs), for a file with given tags and image.                       *)
(***************************************************************************)
\* images a file can carry: bytes that decode to w by h pixels, or do not
Images ==
  {[bytes |-> "p", w |-> w, h |-> h, decodes |-> TRUE] :
      w \in {MaxImageSide, MaxImageSide + 1},
      h \in {MaxImageSide, MaxImageSide + 1}}
  \cup {[bytes |-> "q", w |-> MaxImageSide, h |-> MaxImageSide, decodes |-> TRUE],
        [bytes |-> "bad", w |-> 0, h |-> 0, decodes |-> FALSE]}

\* what the provider can read from a file: artist, album title, image
Tags ==
  [artist : {None, "A"}, album : {None, "X"}, image : {NoImage} \cup Images]

\* the metadata of the file at `path` when it carries `tags`
Meta(path, tags) ==
  [FileInfo[path] EXCEPT !.artist = tags.artist, !.album_artist = None,
                         !.album = tags.album, !.image = tags.image]

\* scan2.rs:184  insert_artist, run alone: [ok, id (0: None), st]
scan2_insert_artist(st, metadata) ==
  LET artist == artist_of(metadata)
      found == get_artist_id(st.db, artist)
      insert == create_artist(st.db, artist)
  IN IF artist = None THEN [ok |-> TRUE, id |-> 0, st |-> st]
     ELSE IF artist \in DOMAIN st.artist_mutex_table
     THEN [ok |-> TRUE, id |-> st.artist_mutex_table[artist], st |-> st]
     ELSE IF found # 0
     THEN [ok |-> TRUE, id |-> found,
           st |-> [st EXCEPT !.artist_mutex_table = (artist :> found) @@ @]]
     ELSE IF insert.id = 0 THEN [ok |-> FALSE, id |-> 0, st |-> st]
     ELSE [ok |-> TRUE, id |-> insert.id,
           st |-> [st EXCEPT !.db = insert.db,
                             !.artist_mutex_table = (artist :> insert.id) @@ @]]

\* scan2.rs:225  insert_album, run alone: [ok, id (0: None), st]
scan2_insert_album(st, metadata, artist_id) ==
  LET key == AlbumKey(artist_id, metadata.album)
      id == get_album_id_by_title(st.db, metadata.album)
      images == scan2_images(metadata.image)
      insert == create_album(st.db, metadata.album, artist_id, images[2],
                             images[1], None)
  IN IF metadata.album = None THEN [ok |-> TRUE, id |-> 0, st |-> st]
     ELSE IF key \in DOMAIN st.album_mutex_table
     THEN [ok |-> TRUE, id |-> st.album_mutex_table[key], st |-> st]
     ELSE IF id # 0
     THEN [ok |-> TRUE, id |-> id,
           st |-> [st EXCEPT !.album_mutex_table = (key :> id) @@ @]]
     ELSE [ok |-> TRUE, id |-> insert.id,
           st |-> [st EXCEPT !.db = insert.db,
                             !.album_mutex_table = (key :> insert.id) @@ @]]

\* scan2.rs:337  insert_track: [ok, db]; fetch_one finds no row when the
\* path has a row already
scan2_insert_track(db, metadata, album_id, path) ==
  IF TracksAt(db, path) # {} THEN [ok |-> FALSE, db |-> db]
  ELSE [ok |-> TRUE,
        db |-> create_track(db, path, album_id, None, metadata.disc_current)]

\* scan2.rs:381  scan_track after read_metadata_for_path, run alone: [ok, st]
scan2_scan_track(st, metadata, path) ==
  LET a == scan2_insert_artist(st, metadata)
  IN IF ~a.ok THEN [ok |-> FALSE, st |-> a.st]
     ELSE IF a.id = 0 THEN [ok |-> TRUE, st |-> a.st]
     ELSE LET b == scan2_insert_album(a.st, metadata, a.id)
          IN IF ~b.ok THEN [ok |-> FALSE, st |-> b.st]
             ELSE IF b.id = 0 THEN [ok |-> TRUE, st |-> b.st]
             ELSE LET c == scan2_insert_track(b.st.db, metadata, b.id, path)
                  IN [ok |-> c.ok, st |-> [b.st EXCEPT !.db = c.db]]

\* the threaded scanner or a pass of the asynchronous one, with an empty store
InitUpsert ==
  /\ variant \in {"threaded", "async"}
  /\ scan_record_file = NoFile
  /\ fs = [p \in Files \cup Dirs |-> IF p \in Linked THEN 0 ELSE 1]
  /\ fs_ops = 0
  /\ library = NewLibrary
  /\ command_rx = <<>>
  /\ pc = "read_commands"
  /\ self = NewScanThread
  /\ pool = EmptyPool
  /\ scan2 = IF variant = "async" THEN NewScanState([f \in Files |-> 0])
             ELSE NoScanState
  /\ tasks = NoTasks
  /\ obs = NoObs
  /\ faults = 0

\* scan.rs:625  update_metadata for a file the provider has read
UpsertThreaded ==
  /\ variant = "threaded"
  /\ \E path \in {f \in Tracks : fs[f] # 0}, tags \in Tags :
       LET metadata == Meta(path, tags)
           result == update_metadata(pool, metadata, path, "ok")
       IN /\ pool' = result.db
          /\ obs' = [obs EXCEPT !.last = [path |-> path, metadata |-> metadata,
                                          ok |-> result.ok]]
  /\ UNCHANGED <<variant, library, fs, fs_ops, command_rx, pc, self, scan_record_file,
                 faults, vars2>>

\* scan2.rs:381  one scan_track future from read_metadata_for_path to its end
UpsertAsync ==
  /\ variant = "async"
  /\ \E path \in {f \in Tracks : fs[f] # 0}, tags \in Tags :
       LET metadata == Meta(path, tags)
           st == [db |-> pool,
                  artist_mutex_table |-> scan2.artist_mutex_table,
                  album_mutex_table |-> scan2.album_mutex_table]
           result == scan2_scan_track(st, metadata, path)
       IN /\ pool' = result.st.db
          /\ scan2' = [scan2 EXCEPT
                         !.artist_mutex_table = result.st.artist_mutex_table,
                         !.album_mutex_table = result.st.album_mutex_table]
          /\ obs' = [obs EXCEPT !.last = [path |-> path, metadata |-> metadata,
                                          ok |-> result.ok]]
  /\ UNCHANGED <<variant, library, fs, fs_ops, command_rx, pc, self, scan_record_file,
                 faults, tasks>>

\* the program, having begun a pass, is closed while the scanner is Idle and
\* is started again.
\* scan.rs:181-238  start() builds a new ScanThread and run() loads the
\* scan record from scan_record.json; the store is the database on disk
Restart ==
  /\ variant = "threaded"
  /\ pc = "read_commands" /\ self.scan_state = "Idle"
  /\ obs.events # <<>>
  /\ self' = [NewScanThread EXCEPT !.scan_record = from_reader(scan_record_file)]
  /\ command_rx' = <<>>
  /\ obs' = NoObs
  /\ UNCHANGED <<variant, library, fs, fs_ops, pc, pool, scan_record_file, faults, vars2>>

FsNext ==
  \/ CreateFile
  \/ ModifyFile
  \/ RemoveFile

ThreadedNext ==
  \/ ScanInterface_scan
  \/ ScanInterface_stop
  \/ ReadCommands
  \/ RunIdle
  \/ RunCleanup
  \/ RunDiscovering
  \/ RunScanning

AsyncNext ==
  \/ start_scan
  \/ \E d \in Dirs : scan_directory(d)
  \/ \E f \in Files :
       \/ scan_track(f)
       \/ artist_get(f)
       \/ artist_create(f)
       \/ album_get(f)
       \/ album_create(f)
       \/ track_create(f)
  \/ save_scan_record

NextThreaded == ThreadedNext \/ FsNext

NextAsync == AsyncNext \/ FsNext

Next == ThreadedNext \/ AsyncNext \/ FsNext

\* the threaded scanner
Spec == InitThreaded /\ [][NextThreaded]_vars

\* the scanner thread keeps being scheduled
ThreadRuns ==
  ReadCommands \/ RunIdle \/ RunCleanup \/ RunDiscovering \/ RunScanning

\* the threaded scanner over a library whose folders may vanish
NextDirs == ThreadedNext \/ FsNext \/ RemoveDir

SpecDirs == InitThreaded /\ [][NextDirs]_vars /\ WF_vars(ThreadRuns)

\* the threaded scanner in a process that can end while the record is written
NextCrash == ThreadedNext \/ FsNext \/ CrashInPersist

SpecCrash == InitThreaded /\ [][NextCrash]_vars

\* either scanner, started with a scan_record.json that cannot be loaded
NextStart == ThreadedNext \/ AsyncNext

SpecStart == InitStart /\ [][NextStart]_vars

\* either scanner over a library in which a folder has two paths
NextLinks == ThreadedNext \/ AsyncNext

SpecLinks == InitLinks /\ [][NextLinks]_vars

\* the threaded scanner over a library large enough for progress events
SpecProgress == InitProgress /\ [][ThreadedNext]_vars

\* the threaded scanner in a program that is closed and started again
NextRestart == ThreadedNext \/ FsNext \/ Restart

SpecRestart == InitThreaded /\ [][NextRestart]_vars

\* the asynchronous scanner over directories with entries it cannot read
NextStat == AsyncNext \/ FsNext \/ \E d \in Dirs : scan_directory_fails(d)

SpecStat == InitAsync /\ [][NextStat]_vars

\* library.rs:62  a ViewSwitchMessage is emitted on the switcher model
ViewSwitch ==
  /\ \E message \in ViewSwitchMessage :
       /\ message[1] = "Release" =>
            Cardinality({i \in 1..Len(library.switcher_model) :
                           library.switcher_model[i][1] = "Release"}) < MaxReleases
       /\ library' = on_view_switch(library, message)
  /\ UNCHANGED <<variant, fs, fs_ops, command_rx, pc, self, pool,
                 scan_record_file, obs, faults, vars2>>

\* the Library view under any sequence of view-switch messages
NextNav == ViewSwitch

SpecNav == InitThreaded /\ [][NextNav]_vars

\* the upserts of either scanner, file after file
NextUpsert == UpsertThreaded \/ UpsertAsync

SpecUpsert == InitUpsert /\ [][NextUpsert]_vars

\* the asynchronous scanner
SpecAsync == InitAsync /\ [][NextAsync]_vars

\* either scanner
SpecBoth == Init /\ [][Next]_vars

(***************************************************************************)
(* Claims about the threaded scanner.                                      *)
(***************************************************************************)
\* the pass begun by the last accepted Scan ran to its end
Completed ==
  obs.events # <<>> /\ Last(obs.events) = <<"ScanCompleteIdle">>

\* the scanner thread takes a step of its loop
ThreadStep == pc' # pc

\* C1: two complete passes over an unchanged tree: the second pass adds no
\* Artist, Album or Track row, and the scan record at its end is the scan
\* record at the end of the first.  (Stated for runs without any injected
\* provider or store failure.)
C1_SecondPassIdempotent ==
  faults = 0 =>
    /\ obs.idem.stage \in {3, 4} =>
         /\ pool.artist \subseteq obs.idem.pool.artist
         /\ pool.album \subseteq obs.idem.pool.album
         /\ pool.track \subseteq obs.idem.pool.track
    /\ obs.idem.stage = 4 => self.scan_record = obs.idem.rec

\* C2: a scannable file whose modification time equals its scan-record entry
\* is not enqueued by a step of the scanner, and no provider opens it: the
\* threaded scanner does not put it into to_process, the asynchronous one
\* creates no scan_track future for it.
C2_UnchangedFileSkipped ==
  [][\A f \in Files :
       /\ (/\ file_is_scannable_with_provider(f, SUPPORTED_EXTENSIONS)
           /\ fs[f] # 0
           /\ self.scan_record[f] = fs[f]
           /\ ~Contains(self.to_process, f))
          => /\ ~Contains(self'.to_process, f)
             /\ f \in obs'.opened => f \in obs.opened
       /\ (/\ scan2.phase = "running"
           /\ fs[f] # 0
           /\ scan2.scan_record[f] = fs[f]
           /\ tasks[f].pc = "none")
          => tasks'[f].pc = "none" /\ ~tasks'[f].opened]_vars

\* C2 witness: in a second pass over an unchanged tree the folder of an
\* unchanged track has been read and the track was neither enqueued nor opened
C2_Witness ==
  /\ self.scan_state = "Scanning"
  /\ obs.idem.stage = 3
  /\ \E f \in Tracks :
       /\ fs[f] # 0 /\ self.scan_record[f] = fs[f]
       /\ FileInfo[f].parent \in obs.traversed
       /\ f \notin obs.opened
       /\ ~Contains(self.to_process, f)

C4_FailedFileNotRecorded ==
  Completed =>
    \A f \in obs.failed : fs[f] # 0 => self.scan_record[f] # fs[f]

\* C5: a candidate discarded by Stop is enqueued again by the next pass: when
\* a later pass reaches Scanning no discarded candidate that still exists is
\* left un-enqueued.
C5_DroppedCandidatesReenqueued ==
  self.scan_state = "Scanning" =>
    \A f \in obs.dropped : fs[f] = 0

\* C8: every Track row belongs to an Album row of the track's own resolved
\* artist (album identity is (artist id, title)).
C8_AlbumOfOwnArtist ==
  \A t \in pool.track :
    \E al \in pool.album, ar \in pool.artist :
      /\ al.id = t.album_id
      /\ ar.id = al.artist_id
      /\ ar.name = artist_of(FileInfo[t.location])

\* the scan-record keys whose file is missing
Missing == {v \in Files : self.scan_record[v] # 0 /\ fs[v] = 0}

\* C9 as stated: Cleanup deletes the Track row and the scan-record entry of
\* every missing file that has a Track row, and removes no other Track, Album
\* or Artist row and no scan-record entry of a file that exists.
C9_CleanupDeletesEveryMissing ==
  [][(self.scan_state = "Cleanup" /\ ThreadStep) =>
       /\ \A p \in Missing :
            TracksAt(pool, p) # {} =>
              TracksAt(pool', p) = {} /\ self'.scan_record[p] = 0
       /\ \A p \in Files \ Missing :
            /\ TracksAt(pool', p) = TracksAt(pool, p)
            /\ self'.scan_record[p] = self.scan_record[p]
       /\ pool'.artist = pool.artist
       /\ pool'.album = pool.album]_vars

\* C9 amended: for each missing file Cleanup either deletes its Track row and
\* its scan-record entry, or (the store's delete failed) keeps both; no other
\* Track, Album or Artist row and no other scan-record entry is removed.
C9_CleanupDeletesOnlyMissing ==
  [][(self.scan_state = "Cleanup" /\ ThreadStep) =>
       /\ \A p \in Missing :
            \/ /\ p \notin obs'.del_failed
               /\ TracksAt(pool', p) = {}
               /\ self'.scan_record[p] = 0
            \/ /\ p \in obs'.del_failed
               /\ TracksAt(pool', p) = TracksAt(pool, p)
               /\ self'.scan_record[p] = self.scan_record[p]
       /\ \A p \in Files \ Missing :
            /\ TracksAt(pool', p) = TracksAt(pool, p)
            /\ self'.scan_record[p] = self.scan_record[p]
       /\ pool'.artist = pool.artist
       /\ pool'.album = pool.album]_vars

\* C9 witness: Cleanup has just run in a run without failures; a track that
\* the last completed pass had recorded is missing, its Track row and its
\* scan-record entry are gone and the other track's row and entry are kept
C9_Witness ==
  /\ faults = 0
  /\ self.scan_state = "Discovering" /\ pc = "read_commands"
  /\ self.discovered = ScanPaths
  /\ \E f, g \in {F1, F2} :
       /\ fs[f] = 0 /\ scan_record_file.entries[f] # 0
       /\ self.scan_record[f] = 0 /\ TracksAt(pool, f) = {}
       /\ fs[g] # 0 /\ self.scan_record[g] # 0 /\ TracksAt(pool, g) # {}

ArtistsNamed(name) == {a \in pool.artist : a.name = name}

\* the artist id file f resolved to in the running pass (0: none yet)
ResolvedArtist(f) ==
  IF variant = "async" THEN tasks[f].artist_id ELSE obs.resolved[f]

\* C6: the store holds at most one Artist row per name, every file that
\* resolved its artist (in the threaded scanner, or as one of the interleaved
\* futures of the asynchronous one, in any pass) holds the id of the one row
\* of its artist name, and no future loses the insert of its artist to
\* another future.
C6_OneArtistPerName ==
  /\ \A a, b \in pool.artist : a.name = b.name => a = b
  /\ \A f \in Files :
       /\ ResolvedArtist(f) # 0 =>
            ArtistsNamed(artist_of(FileInfo[f])) =
              {[id |-> ResolvedArtist(f), name |-> artist_of(FileInfo[f])]}
       /\ ~(tasks[f].pc = "done" /\ tasks[f].err = "conflict"
              /\ tasks[f].artist_id = 0)

\* C6 witness: two futures of one pass of the asynchronous scanner have both
\* resolved the same artist name to the id of the one Artist row
C6_Witness ==
  /\ variant = "async"
  /\ tasks[F1].artist_id # 0
  /\ tasks[F3].artist_id = tasks[F1].artist_id
  /\ Cardinality(pool.artist) = 1

\* the futures that hold an album id for (artist id, title)
AlbumHolders(artist_id, title) ==
  {f \in Files : /\ tasks[f].album_id # 0
                 /\ tasks[f].artist_id = artist_id
                 /\ FileInfo[f].album = title}

\* C7: the futures of a pass that resolve the same (artist id, album title)
\* all obtain the same album id, at most one of them created an Album row,
\* and the store holds at most one Album row for that identity.
C7_OneAlbumPerIdentity ==
  /\ \A f \in Files :
       \A g \in AlbumHolders(tasks[f].artist_id, FileInfo[f].album) :
         tasks[f].album_id # 0 =>
           /\ tasks[f].album_id = tasks[g].album_id
           /\ (tasks[f].created /\ tasks[g].created) => f = g
  /\ variant = "async" =>
       \A a, b \in pool.album :
         (a.artist_id = b.artist_id /\ a.title = b.title) => a = b

\* C7 witness: two futures of one pass hold the same album id for the same
\* (artist id, album title), and one of them created the row
C7_Witness ==
  /\ tasks[F1].album_id # 0
  /\ tasks[F3].artist_id = tasks[F1].artist_id
  /\ tasks[F3].album_id = tasks[F1].album_id
  /\ tasks[F1].created \/ tasks[F3].created
(***************************************************************************)
(* Claims about the folder binding, the commands and the end of a pass.    *)
(***************************************************************************)
\* scan.rs:500  the disc number of a Track row, -1 when the tag is absent
DiscNum(t) == IF t.disc = None THEN -1 ELSE t.disc

\* C11: every Track row lies in the folder bound to its (album id, disc
\* number), so no two Track rows of one album and disc lie in different
\* folders.
C11_TrackInBoundFolder ==
  /\ \A t \in pool.track :
       get_album_path(pool, t.album_id, DiscNum(t)) = FileInfo[t.location].parent
  /\ \A t, u \in pool.track :
       (t.album_id = u.album_id /\ DiscNum(t) = DiscNum(u))
       => FileInfo[t.location].parent = FileInfo[u.location].parent
\* the scanner thread runs read_commands
ReadCommandsStep == pc = "read_commands" /\ pc' = "match"

\* the scanner as it reads the i-th waiting command
Before(i) == drain(World, SubSeq(command_rx, 1, i - 1))

C15_DiscoverySurvivesVanishedFolder == pc # "panicked"
\* C14: with the scanner thread scheduled, a pass that is running leads to the
\* scanner being Idle again, and the scanner leaves a pass only by a Stop or
\* with ScanCompleteIdle as the event it sent last.
C14_PassEndsOrIsStopped ==
  /\ (self.scan_state # "Idle") ~> (self.scan_state = "Idle")
  /\ [][(self.scan_state # "Idle" /\ self'.scan_state = "Idle")
          => (Contains(command_rx, "Stop") \/ Completed')]_vars
\* the candidates whose extraction or upsert fails in this step
FailedNow == obs'.failed \ obs.failed

\* the scanner as scan() is called in this step: after the waiting commands
\* when read_commands calls it
AtScan == IF pc = "read_commands" THEN drain(World, command_rx) ELSE World

\* C16: the call of scan() in which a candidate fails leaves the pass in
\* Scanning with every other candidate still queued and removes or changes no
\* row written before; the pass ends only when no candidate is left.
C16_FailureIsolated ==
  [][/\ FailedNow # {} =>
          /\ self'.scan_state = "Scanning"
          /\ self'.to_process = Front(AtScan.self.to_process)
          /\ pool.artist \subseteq pool'.artist
          /\ pool.album \subseteq pool'.album
          /\ pool.album_path \subseteq pool'.album_path
          /\ pool.track \subseteq pool'.track
          /\ \A f \in Files \ FailedNow : TracksAt(pool', f) = TracksAt(pool, f)
     /\ (self.scan_state = "Scanning" /\ self'.scan_state = "Idle"
           /\ ~Contains(command_rx, "Stop"))
        => self.to_process = <<>>]_vars

\* C16 witness: a candidate failed in a pass that had written the row of
\* another file and has a candidate left
C16_Witness ==
  /\ self.scan_state = "Scanning"
  /\ obs.failed # {}
  /\ self.to_process # <<>>
  /\ \E f \in Files \ obs.failed : TracksAt(pool, f) # {}
  /\ \A f \in obs.failed : TracksAt(pool, f) = {}

\* ------------------------------------------------------------------------
\* Claims about the scan record file
\* ------------------------------------------------------------------------

\* the files a directory task of the asynchronous scanner has listed
Listed == {f \in Files : fs[f] # 0 /\ tasks[FileInfo[f].parent].pc = "done"}

\* C17: when scan_record.json exists and does not deserialize, the scanner
\* keeps running with an empty record, and its first pass takes every track
\* on disk as a candidate: the threaded scanner has each one queued or
\* already opened when it scans, the asynchronous scanner gives each one a
\* task as soon as its folder is listed.
C17_CorruptRecordMeansFullRescan ==
  scan_record_file = CorruptFile =>
    /\ variant = "threaded" =>
         /\ pc \notin Dead
         /\ obs.events = <<>> => self.scan_record = [f \in Files |-> 0]
         /\ (obs.first /\ self.scan_state = "Scanning") =>
              \A f \in Tracks : fs[f] # 0 =>
                 Contains(self.to_process, f) \/ f \in obs.opened
    /\ variant = "async" =>
         /\ scan2.phase = "running" =>
              \A f \in Tracks \cap Listed : tasks[f].pc # "none"

\* the threaded scanner's first pass after a corrupt record is scanning and
\* has queued the track the corrupt text was about
C17_Witness ==
  /\ scan_record_file = CorruptFile
  /\ variant = "threaded" /\ pc \notin Dead
  /\ obs.first /\ self.scan_state = "Scanning"
  /\ Contains(self.to_process, F1) /\ fs[F1] = 1

\* C18: when scan_record.json exists and cannot be opened, the threaded
\* scanner goes on with an empty record and is in its command loop, so that
\* a later Scan command starts a pass.
C18_UnopenableRecordStillRuns ==
  (variant = "threaded" /\ scan_record_file = UnreadableFile) =>
    /\ pc \notin Dead
    /\ obs.events = <<>> => self.scan_record = [f \in Files |-> 0]

\* C19: persist is atomic. Once scan_record.json holds a complete snapshot,
\* every step, a crash inside persist included, leaves on disk either that
\* snapshot or the complete snapshot of the record being written, so that a
\* load never finds a truncated, empty or unparsable file.
C19_PersistIsAtomic ==
  [][scan_record_file.format = "map" =>
       /\ scan_record_file'.format = "map"
       /\ \/ scan_record_file' = scan_record_file
          \/ scan_record_file' = to_json_map(AtScan.self.scan_record)]_vars

\* C20: the record is written exactly once per completed pass, at the step
\* from Scanning to Idle and before ScanCompleteIdle is sent: while a pass
\* runs nothing has been written, a completed pass has written once, with
\* the completion event not yet sent, what is then the record in memory,
\* and a pass ended by Stop has written nothing.
C20_RecordWrittenOncePerPass ==
  variant = "threaded" =>
    /\ self.scan_state # "Idle" => obs.writes = <<>>
    /\ Completed =>
         /\ self.scan_state = "Idle"
         /\ obs.writes = <<Len(obs.events) - 1>>
         /\ scan_record_file = to_json_map(self.scan_record)
    /\ (self.scan_state = "Idle" /\ ~Completed) => obs.writes = <<>>

\* a pass that scanned two files has completed and written the record; and
\* before it a pass had been stopped with candidates queued
C20_Witness ==
  /\ variant = "threaded" /\ Completed
  /\ obs.writes # <<>>
  /\ Cardinality(obs.opened) >= 2
  /\ obs.dropped # {}
  /\ scan_record_file.format = "map"

(***************************************************************************)
(* Claims about the rows one file produces.                                *)
(***************************************************************************)
\* the file of the last upsert and what the provider read from it
Upserted == obs'.last

\* an upsert has taken place
UpsertStep == obs'.last.path # None /\ (pool' # pool \/ obs'.last # obs.last)

\* C21: every Track row references exactly one existing Album row, and the
\* upsert of a file whose metadata has no album title adds no Track row.
C21_TrackHasItsAlbum ==
  /\ [](\A t \in pool.track :
          Cardinality({a \in pool.album : a.id = t.album_id}) = 1)
  /\ [][(UpsertStep /\ Upserted.metadata.album = None) =>
          pool'.track = pool.track]_vars

\* a file with an artist and no album title has been handled, in a store
\* that holds tracks of other files and none of this one
C21_Witness ==
  /\ obs.last.path # None
  /\ obs.last.metadata.album = None /\ obs.last.metadata.artist # None
  /\ pool.track # {} /\ pool.artist # {}
  /\ TracksAt(pool, obs.last.path) = {}

\* C22: the upsert of a file whose metadata has neither album artist nor
\* artist is given up before the album is resolved: it adds no Artist,
\* Album, folder binding or Track row.
C22_NoArtistNoRows ==
  [][(UpsertStep /\ artist_of(Upserted.metadata) = None) => pool' = pool]_vars

\* the Album rows as they were, each with the art it has now
ArtOf(db, id) == {<<a.image, a.thumb>> : a \in {r \in db.album : r.id = id}}

\* C23: art is attached once, at creation: an Album row that exists keeps
\* its full-size image and its thumbnail through every later upsert, also
\* when it was created without art and a later file of the album has art.
C23_ArtNeverChanges ==
  [][\A a \in pool.album : ArtOf(pool', a.id) = {<<a.image, a.thumb>>}]_vars

\* an album created without art has since received a file that carries art
\* and whose track was stored
C23_Witness ==
  /\ obs.last.path # None /\ obs.last.ok
  /\ obs.last.metadata.image \in Images /\ obs.last.metadata.image.decodes
  /\ TracksAt(pool, obs.last.path) # {}
  /\ Cardinality(pool.track) >= 2
  /\ \E a \in pool.album : a.image = NoArt

\* C24: when the image of the first file of a new album does not decode,
\* the Album row is created without full-size image and without thumbnail,
\* the file's Track row is created, and the file is not reported as failed.
C24_UndecodableArtIsSoft ==
  [][(/\ UpsertStep
      /\ Upserted.metadata.image # NoImage /\ ~Upserted.metadata.image.decodes
      /\ Upserted.metadata.album # None /\ artist_of(Upserted.metadata) # None
      /\ \A a \in pool.album : a.title # Upserted.metadata.album)
     => /\ Upserted.ok
        /\ \E a \in pool'.album :
             /\ a.title = Upserted.metadata.album
             /\ a.image = NoArt /\ a.thumb = NoThumb
             /\ \E t \in TracksAt(pool', Upserted.path) : t.album_id = a.id]_vars

\* C25: the stored full-size image of a decoded image of w by h pixels is
\* the image downscaled to fit MaxImageSide by MaxImageSide and re-encoded
\* when w or h exceeds MaxImageSide, and the original bytes otherwise.
C25_DownscaledWhenASideExceeds ==
  \A a \in pool.album :
    a.image # NoArt =>
      IF a.image.from_w > MaxImageSide \/ a.image.from_h > MaxImageSide
      THEN /\ a.image.format = "jpeg"
           /\ a.image.w <= MaxImageSide /\ a.image.h <= MaxImageSide
      ELSE a.image.format = "original" /\ a.image.w = a.image.from_w
                                        /\ a.image.h = a.image.from_h

\* C26: there is at most one Track row per path, and the upsert of a file
\* whose path has a Track row already leaves the Track table as it is and
\* is a success, not an error.
C26_TrackConflictIsBenign ==
  /\ [](\A f \in Files : Cardinality(TracksAt(pool, f)) <= 1)
  /\ [][(UpsertStep /\ TracksAt(pool, Upserted.path) # {}) =>
          (pool'.track = pool.track /\ Upserted.ok)]_vars

(***************************************************************************)
(* Claims about discovery, the phases and the events.                      *)
(***************************************************************************)
\* the directories scan2 has listed in the running pass
ListedDirs == {d \in Dirs : tasks[d].pc = "done"}

\* C27: discovery reads each directory, identified by its canonical path,
\* at most once per pass, also when links make a directory reachable by
\* several paths: the threaded scanner's visited list and the directories
\* the asynchronous scanner has listed hold no two paths of one directory.
C27_DirectoryReadOnce ==
  /\ \A i, j \in 1..Len(self.visited) :
       i # j => canonicalize(self.visited[i]) # canonicalize(self.visited[j])
  /\ \A d, e \in ListedDirs : d # e => canonicalize(d) # canonicalize(e)

\* scan.rs:263-281  what one command may do to the phase
CommandEdge(w, command) ==
  LET from == w.self.scan_state
      to == read_command(w, command).self.scan_state
  IN \/ to = from
     \/ command = "Scan" /\ from = "Idle" /\ to = "Cleanup"
     \/ command = "Stop" /\ to = "Idle"

\* scan.rs:244-256  what cleanup(), discover() or scan() may do to the phase
RunEdge(w, to) ==
  LET from == w.self.scan_state
  IN \/ to = from
     \/ from = "Cleanup" /\ to = "Discovering"
     \/ from = "Discovering" /\ to = "Scanning" /\ w.self.discovered = <<>>
     \/ from = "Scanning" /\ to = "Idle" /\ w.self.to_process = <<>>

EventRank(ev) ==
  CASE ev[1] = "Cleaning" -> 1
    [] ev[1] = "DiscoverProgress" -> 2
    [] ev[1] = "ScanProgress" -> 3
    [] ev[1] = "ScanCompleteIdle" -> 4

\* how many events of one kind the pass has sent
EventCount(kind) ==
  Cardinality({i \in 1..Len(obs.events) : obs.events[i][1] = kind})

\* a step of the scanner thread that sends ScanCompleteIdle
SendsComplete ==
  /\ obs'.events # obs.events
  /\ Last(obs'.events) = <<"ScanCompleteIdle">>

\* C29: the events of one pass of the threaded scanner come in the order
\* Cleaning, DiscoverProgress*, ScanProgress*, ScanCompleteIdle: Cleaning is
\* the first event and is sent once, no DiscoverProgress follows a
\* ScanProgress, ScanCompleteIdle is sent at most once and last, and it is
\* sent exactly by the step in which the Scanning phase finds no candidate
\* left.
C29_EventOrder ==
  /\ [](obs.events # <<>> =>
          /\ obs.events[1] = <<"Cleaning">>
          /\ EventCount("Cleaning") = 1
          /\ EventCount("ScanCompleteIdle") <= 1
          /\ \A i, j \in 1..Len(obs.events) :
               i < j => EventRank(obs.events[i]) <= EventRank(obs.events[j]))
  /\ [][IF ThreadStep /\ pc' # "panicked"
              /\ AtScan.self.scan_state = "Scanning"
              /\ AtScan.self.to_process = <<>>
        THEN SendsComplete
        ELSE ~SendsComplete]_vars

\* a pass has sent Cleaning, two DiscoverProgress, several ScanProgress and
\* then ScanCompleteIdle
C29_Witness ==
  /\ variant = "threaded" /\ self.scan_state = "Idle"
  /\ EventCount("DiscoverProgress") >= 2
  /\ EventCount("ScanProgress") >= 2
  /\ Last(obs.events) = <<"ScanCompleteIdle">>

\* the events of one kind that the pass has sent, in order
EventsOf(kind) == SelectSeq(obs.events, LAMBDA ev : ev[1] = kind)

\* the events that this step sends
NewEvents ==
  IF /\ Len(obs'.events) >= Len(obs.events)
     /\ SubSeq(obs'.events, 1, Len(obs.events)) = obs.events
  THEN SubSeq(obs'.events, Len(obs.events) + 1, Len(obs'.events))
  ELSE obs'.events

\* C30: progress is reported in batches.  Every DiscoverProgress(n) of a
\* pass has n a positive multiple of 20, the n of a pass increase strictly,
\* and n is a number of candidates that the pass had discovered when the
\* event was sent (the count of candidates went from below n to n or more
\* in the step that sent it; while the pass runs, the count is the number of
\* files queued or opened).  Every ScanProgress has for current a positive
\* multiple of 5, which is the number of files scanned.
C30_ProgressInBatches ==
  /\ [](LET dp == EventsOf("DiscoverProgress")
            sp == EventsOf("ScanProgress")
        IN /\ \A i \in 1..Len(dp) :
                /\ dp[i][2] > 0 /\ dp[i][2] % DiscoverBatch = 0
                /\ dp[i][2] <= self.discovered_total
           /\ \A i, j \in 1..Len(dp) : i < j => dp[i][2] < dp[j][2]
           /\ \A i \in 1..Len(sp) :
                /\ sp[i][2] > 0 /\ sp[i][2] % ScanBatch = 0
                /\ sp[i][2] <= self.scanned
           /\ self.scan_state # "Idle" =>
                self.discovered_total =
                  Len(self.to_process) + Cardinality(obs.opened))
  /\ [][\A i \in 1..Len(NewEvents) :
          LET ev == NewEvents[i]
          IN /\ ev[1] = "DiscoverProgress" =>
                  /\ AtScan.self.discovered_total < ev[2]
                  /\ ev[2] <= self'.discovered_total
             /\ ev[1] = "ScanProgress" =>
                  /\ ev[2] = self'.scanned
                  /\ ev[3] = self'.discovered_total]_vars

\* a pass has reported 20 and then 40 discovered candidates and has gone on
\* to report scanned files twice
C30_Witness ==
  /\ variant = "threaded"
  /\ Len(EventsOf("DiscoverProgress")) = 2
  /\ EventsOf("DiscoverProgress")[2] = <<"DiscoverProgress", 2 * DiscoverBatch>>
  /\ Len(EventsOf("ScanProgress")) >= 2
  /\ self.discovered_total > 2 * DiscoverBatch

\* the album rows that this step creates
NewAlbums == {r \in pool'.album : r \notin pool.album}

\* scan.rs:620  the candidate that the scan() of this step pops
Popped == Last(AtScan.self.to_process)

\* scan.rs:329  the directory that the discover() of this step pops
PoppedDir == Last(AtScan.self.discovered)

\* this step's discover() lists a directory (it does not return early)
ListsDir ==
  /\ AtScan.self.scan_state = "Discovering"
  /\ AtScan.self.discovered # <<>>
  /\ ~Contains(AtScan.self.visited, PoppedDir)
  /\ ~discover_panics(AtScan)

\* C31: Stop takes effect between the steps of the threaded scanner.  A call
\* of read_commands that ends Idle changes neither the store nor the scan
\* record; nothing but a step of the scanner thread changes them; a step
\* that creates an album has also attempted the track of the file at hand
\* (its row is there, or the file is a recorded failure); a step that lists
\* a directory has recorded every supported file of it and queued those it
\* newly recorded, whatever commands are waiting.
C31_StopBetweenSteps ==
  [][IF ThreadStep
     THEN /\ (pc = "read_commands" /\ AtScan.self.scan_state = "Idle") =>
               /\ pool' = pool
               /\ self'.scan_record = self.scan_record
          /\ \A a \in NewAlbums :
               /\ AtScan.self.scan_state = "Scanning"
               /\ \/ \E t \in TracksAt(pool', Popped) : t.album_id = a.id
                  \/ Popped \in obs'.failed
          /\ ListsDir =>
               \A f \in Range(Canonical(read_dir_files(PoppedDir))) :
                  FileInfo[f].ext \in SUPPORTED_EXTENSIONS =>
                    /\ self'.scan_record[f] = fs[f]
                    /\ self.scan_record[f] # fs[f] =>
                         Contains(self'.to_process, f)
     ELSE /\ pool' = pool
          /\ self'.scan_record = self.scan_record]_vars

\* a Stop has ended a pass that had created an album and stored the track of
\* the file that created it, with candidates still queued
C31_Witness ==
  /\ variant = "threaded" /\ self.scan_state = "Idle" /\ pc = "match"
  /\ obs.events # <<>> /\ Last(obs.events) # <<"ScanCompleteIdle">>
  /\ obs.dropped # {}
  /\ \E a \in pool.album : \E f \in obs.opened :
       \E t \in TracksAt(pool, f) : t.album_id = a.id

\* the track rows that this step deletes
DeletedTracks == {t \in pool.track : t \notin pool'.track}

\* C32: no step of either scanner deletes an Artist row or an Album row; a
\* Track row is deleted only by the cleanup() of the threaded scanner, and
\* only when its path is a key of the scan record and its file does not
\* exist.
C32_DeletionOnlyInCleanup ==
  [][/\ pool.artist \subseteq pool'.artist
     /\ pool.album \subseteq pool'.album
     /\ \A t \in DeletedTracks :
          /\ variant = "threaded"
          /\ pc = "match" /\ self.scan_state = "Cleanup"
          /\ self.scan_record[t.location] # 0
          /\ fs[t.location] = 0]_vars

\* cleanup() has just deleted the track of a file that a pass without any
\* failure had stored and that was removed afterwards
C32_Witness ==
  /\ variant = "threaded" /\ self.scan_state = "Discovering"
  /\ faults = 0 /\ pool.album # {}
  /\ \E f \in Tracks :
       /\ fs[f] = 0 /\ TracksAt(pool, f) = {}
       /\ self.scan_record[f] = 0
       /\ scan_record_file.entries[f] # 0

\* the files whose extension no registered provider supports
Unsupported ==
  {f \in Files : \A i \in 1..Len(provider_table) :
                    FileInfo[f].ext \notin provider_table[i]}

\* C33: in both scanners a file with an unsupported extension has no entry
\* in the scan record and is not queued for processing.
C33_OnlySupportedRecorded ==
  \A f \in Unsupported :
     /\ self.scan_record[f] = 0
     /\ ~Contains(self.to_process, f)
     /\ scan2.scan_record[f] = 0
     /\ scan_record_file.entries[f] = 0

\* C34: the file that save_scan_record wrote is read back by the next
\* start_scan as the mapping that was saved.
C34_SaveThenLoadIsIdentity ==
  [][(/\ variant = "async"
      /\ scan2.phase = "idle" /\ scan2'.phase = "running"
      /\ scan_record_file.format = "seq")
       => scan2'.scan_record = scan_record_file.entries]_vars

\* C35: whenever the threaded scanner is Idle, the path of every Track row
\* is a key of the scan record in memory.
C35_TracksAreRecorded ==
  (variant = "threaded" /\ self.scan_state = "Idle") =>
     \A t \in pool.track : self.scan_record[t.location] # 0

\* scan2.rs:88-90  the files whose record entry was inserted in this pass
Inserted ==
  {f \in Files : scan2.scan_record[f] # from_reader(scan_record_file)[f]}

\* C36: when the asynchronous scanner saves the scan record, every file
\* whose entry was inserted in the pass has had its scan_track future run
\* to its end.
C36_RecordedMeansProcessed ==
  [][(variant = "async" /\ scan2.phase = "running" /\ scan2'.phase = "idle")
       => \A f \in Inserted : tasks[f].pc = "done"]_vars

\* C37: a cleanup() in which deletions fail.  The record entry of a stale
\* path is removed if and only if its delete succeeded: a path whose delete
\* failed keeps its entry and its rows, every other stale path loses both;
\* the entries of the files that exist are untouched, and the phase after
\* cleanup() is Discovering.
C37_FailedDeleteKeepsEntry ==
  [][(/\ variant = "threaded" /\ ThreadStep
      /\ pc = "match" /\ self.scan_state = "Cleanup") =>
       /\ self'.scan_state = "Discovering"
       /\ obs'.del_failed \subseteq stale_paths(self.scan_record)
       /\ \A v \in DOMAIN self.scan_record :
            IF v \in obs'.del_failed
            THEN /\ self'.scan_record[v] = self.scan_record[v]
                 /\ TracksAt(pool', v) = TracksAt(pool, v)
            ELSE IF v \in stale_paths(self.scan_record)
            THEN /\ self'.scan_record[v] = 0
                 /\ TracksAt(pool', v) = {}
            ELSE /\ self'.scan_record[v] = self.scan_record[v]
                 /\ TracksAt(pool', v) = TracksAt(pool, v)]_vars

\* cleanup() has run over two stale paths: the delete of one failed and its
\* entry and row are kept, the other is gone from record and store
C37_Witness ==
  /\ variant = "threaded" /\ self.scan_state = "Discovering"
  /\ \E v \in obs.del_failed :
       /\ fs[v] = 0 /\ self.scan_record[v] # 0 /\ TracksAt(pool, v) # {}
  /\ \E u \in Tracks \ obs.del_failed :
       /\ fs[u] = 0 /\ self.scan_record[u] = 0 /\ TracksAt(pool, u) = {}
       /\ scan_record_file.entries[u] # 0

\* C38: in every state of the threaded scanner the files scanned and the
\* candidates still queued are together at most the candidates discovered;
\* every ScanProgress event has current <= total.
C38_ScannedPlusQueuedWithinTotal ==
  /\ self.scanned + Len(self.to_process) <= self.discovered_total
  /\ \A i \in 1..Len(obs.events) :
       obs.events[i][1] = "ScanProgress" => obs.events[i][2] <= obs.events[i][3]

\* a pass has sent ScanProgress, has candidates queued, and one of its files
\* could not be read, so that the sum is below the total
C38_Witness ==
  /\ variant = "threaded" /\ self.scan_state = "Scanning"
  /\ EventCount("ScanProgress") >= 1
  /\ self.to_process # <<>>
  /\ self.scanned + Len(self.to_process) < self.discovered_total

\* C39: after any sequence of view-switch messages the navigation history
\* holds between 1 and 100 entries, none of them Back, the view shown and
\* the navigation bar's message are those of its last entry, and Back on a
\* one-element history changes nothing.
C39_HistoryBounded ==
  LET v == library.switcher_model
  IN /\ Len(v) >= 1 /\ Len(v) <= HistoryCap + 1
     /\ \A i \in 1..Len(v) : v[i] # Back
     /\ library.current_message = Last(v)
     /\ library.view = make_view(Last(v))
     /\ Len(v) = 1 => on_view_switch(library, Back) = library

\* the history is full and its oldest entry was dropped: the release, put
\* in after the first entry, is now the first
C39_Witness ==
  /\ Len(library.switcher_model) = HistoryCap + 1
  /\ library.switcher_model[1][1] = "Release"
  /\ library.view = <<"Album">>

============================================================================
